---------------------------- MODULE Spec2Model ----------------------------
(***************************************************************************)
(* Capacity-tier simulation and recommendation engine.                     *)
(*                                                                         *)
(*   backend/services/capacity_optimizer.py                                *)
(*       simulate_link, evaluate_link, optimize_all_links                  *)
(*   backend/services/capacity_tier_recommendation.py                      *)
(*       simulate_link_performance, evaluate_capacity_tier,                *)
(*       recommend_capacity_tier                                           *)
(*                                                                         *)
(* A behaviour is one call of one entry point on the arguments drawn in    *)
(* Init.  The simulators advance one slot per step.                        *)
(*                                                                         *)
(* Numbers.  The code computes in floating point; the model computes the   *)
(* same quantities exactly, as integers or as fractions <<num, den>>.      *)
(* Bits are counted in the unit "bits one Gbps carries during one symbol", *)
(* so that a slot of g Gbps is g * SYMBOLS_PER_SLOT units and the buffer   *)
(* of a g Gbps link is the integer g * BUFFER_SYMBOLS.  Demands are whole  *)
(* numbers of Gbps.  Rounded outputs are held as scaled integers (stated   *)
(* at each field).                                                         *)
(***************************************************************************)
EXTENDS Integers, Sequences, FiniteSets, TLC

(***************************************************************************)
(* Bounds of the model.                                                    *)
(***************************************************************************)
\* longest traffic series given to evaluate_link
MaxLen == 4
\* longest traffic series given to recommend_capacity_tier
MaxPerfLen == 3
\* number of cells of a topology given to optimize_all_links
MaxCells == 2
MaxLinks == 2

\* per-slot demands of a series, in Gbps: none, below 10G, within the 10G
\* buffer, twice 10G, within the 25G buffer, twice 25G, twice 50G
Demands == {0, 8, 12, 20, 30, 50, 100}

(***************************************************************************)
(* Arithmetic helpers standing for Python's float operations.              *)
(***************************************************************************)
Max(a, b) == IF a >= b THEN a ELSE b

Min(a, b) == IF a <= b THEN a ELSE b

\* round(num / den) for num >= 0, den > 0: nearest integer, ties to even
\* (Python 3's round)
RoundHalfEven(num, den) ==
    LET q == num \div den
        r == num % den
    IN  IF 2 * r < den THEN q
        ELSE IF 2 * r > den THEN q + 1
        ELSE IF q % 2 = 0 THEN q ELSE q + 1

\* max(list) of a non-empty list
SeqMax(s) == CHOOSE m \in {s[i] : i \in DOMAIN s} : \A i \in DOMAIN s : s[i] <= m

(***************************************************************************)
(* capacity_optimizer.py: constants                                        *)
(***************************************************************************)
\* capacity tiers in Gbps, ordered by cost, lowest first
CAPACITY_TIERS == <<10, 25, 50>>

\* relative cost of a tier, in tenths (1.0, 2.5, 5.0)
TIER_COSTS == (10 :> 10) @@ (25 :> 25) @@ (50 :> 50)

SLA_MAX_LOSS_PERCENT == 1

BUFFER_SYMBOLS == 4

SYMBOLS_PER_SLOT == 14

\* bits per slot of a rate in Gbps, in the model's unit of bits
gbps_to_bits_per_slot(gbps) == gbps * SYMBOLS_PER_SLOT

(***************************************************************************)
(* capacity_optimizer.py: simulate_link                                    *)
(***************************************************************************)
\* the simulation state before the first slot
SimStart == [buffer_fill |-> 0, loss_slots |-> 0, traffic_slots |-> 0]

\* mutant of BufferCapacity: the symbol ratio inverted
BufferCapacityInverted(capacity_bits) ==
    (capacity_bits * SYMBOLS_PER_SLOT) \div BUFFER_SYMBOLS

\* the buffer holds capacity_bits * (BUFFER_SYMBOLS / SYMBOLS_PER_SLOT)
BufferCapacity(capacity_bits) ==
    (capacity_bits * BUFFER_SYMBOLS) \div SYMBOLS_PER_SLOT

\* mutant of Overflows: the comparison reversed
OverflowsReversed(fill, buffer_capacity) == fill < buffer_capacity

\* the overflow test of simulate_link
Overflows(fill, buffer_capacity) == fill > buffer_capacity

\* mutant of IsEmptySlot: a zero-demand slot is taken as carrying traffic
IsEmptySlotStrict(traffic) == traffic < 0

\* the empty-slot test of simulate_link
IsEmptySlot(traffic) == traffic <= 0

\* mutant of SimSlot: nothing is transmitted before the overflow test
SimSlotNoTransmit(s, traffic, capacity_gbps) ==
    LET capacity_bits   == gbps_to_bits_per_slot(capacity_gbps)
        buffer_capacity == BufferCapacity(capacity_bits)
        filled          == s.buffer_fill + traffic
    IN  IF IsEmptySlot(traffic)
        THEN [s EXCEPT !.buffer_fill = Max(0, s.buffer_fill - capacity_bits)]
        ELSE IF Overflows(filled, buffer_capacity)
             THEN [buffer_fill   |-> buffer_capacity,
                   loss_slots    |-> s.loss_slots + 1,
                   traffic_slots |-> s.traffic_slots + 1]
             ELSE [buffer_fill   |-> filled,
                   loss_slots    |-> s.loss_slots,
                   traffic_slots |-> s.traffic_slots + 1]

\* mutant of SimSlot: on overflow the excess stays in the buffer
SimSlotNoClamp(s, traffic, capacity_gbps) ==
    LET capacity_bits   == gbps_to_bits_per_slot(capacity_gbps)
        buffer_capacity == BufferCapacity(capacity_bits)
        filled          == s.buffer_fill + traffic
        transmitted     == Min(filled, capacity_bits)
        remaining       == filled - transmitted
    IN  IF IsEmptySlot(traffic)
        THEN [s EXCEPT !.buffer_fill = Max(0, s.buffer_fill - capacity_bits)]
        ELSE IF Overflows(remaining, buffer_capacity)
             THEN [buffer_fill   |-> remaining,
                   loss_slots    |-> s.loss_slots + 1,
                   traffic_slots |-> s.traffic_slots + 1]
             ELSE [buffer_fill   |-> remaining,
                   loss_slots    |-> s.loss_slots,
                   traffic_slots |-> s.traffic_slots + 1]

\* mutant of SimSlot: a slot without demand is counted as a traffic slot
SimSlotCountsIdle(s, traffic, capacity_gbps) ==
    LET capacity_bits   == gbps_to_bits_per_slot(capacity_gbps)
        buffer_capacity == BufferCapacity(capacity_bits)
        filled          == s.buffer_fill + traffic
        transmitted     == Min(filled, capacity_bits)
        remaining       == filled - transmitted
    IN  IF IsEmptySlot(traffic)
        THEN [s EXCEPT !.buffer_fill = Max(0, s.buffer_fill - capacity_bits),
                       !.traffic_slots = @ + 1]
        ELSE IF Overflows(remaining, buffer_capacity)
             THEN [buffer_fill   |-> buffer_capacity,
                   loss_slots    |-> s.loss_slots + 1,
                   traffic_slots |-> s.traffic_slots + 1]
             ELSE [buffer_fill   |-> remaining,
                   loss_slots    |-> s.loss_slots,
                   traffic_slots |-> s.traffic_slots + 1]

\* one iteration of simulate_link's loop: state s, this slot's traffic in
\* bits, the tier's capacity in Gbps
SimSlot(s, traffic, capacity_gbps) ==
    LET capacity_bits   == gbps_to_bits_per_slot(capacity_gbps)
        buffer_capacity == BufferCapacity(capacity_bits)
        filled          == s.buffer_fill + traffic
        transmitted     == Min(filled, capacity_bits)
        remaining       == filled - transmitted
    IN  IF IsEmptySlot(traffic)
        THEN [s EXCEPT !.buffer_fill = Max(0, s.buffer_fill - capacity_bits)]
        ELSE IF Overflows(remaining, buffer_capacity)
             THEN [buffer_fill   |-> buffer_capacity,
                   loss_slots    |-> s.loss_slots + 1,
                   traffic_slots |-> s.traffic_slots + 1]
             ELSE [buffer_fill   |-> remaining,
                   loss_slots    |-> s.loss_slots,
                   traffic_slots |-> s.traffic_slots + 1]

\* what simulate_link returns from the state after the last slot;
\* loss_percent is held in hundredths of a percent (round(.., 2)), sla_pass
\* is decided on the unrounded percentage
SimReturn(s, capacity_gbps, total_slots) ==
    [capacity_gbps |-> capacity_gbps,
     total_slots   |-> total_slots,
     traffic_slots |-> s.traffic_slots,
     loss_slots    |-> s.loss_slots,
     loss_percent  |-> IF s.traffic_slots > 0
                       THEN RoundHalfEven(s.loss_slots * 10000, s.traffic_slots)
                       ELSE 0,
     sla_pass      |-> IF s.traffic_slots > 0
                       THEN s.loss_slots * 100 <= SLA_MAX_LOSS_PERCENT * s.traffic_slots
                       ELSE TRUE]

RECURSIVE SimRun(_, _, _)
\* simulate_link's loop over a whole series
SimRun(s, traffic_bits_per_slot, capacity_gbps) ==
    IF traffic_bits_per_slot = <<>> THEN s
    ELSE SimRun(SimSlot(s, Head(traffic_bits_per_slot), capacity_gbps),
                Tail(traffic_bits_per_slot), capacity_gbps)

simulate_link(traffic_bits_per_slot, capacity_gbps) ==
    SimReturn(SimRun(SimStart, traffic_bits_per_slot, capacity_gbps),
              capacity_gbps, Len(traffic_bits_per_slot))

(***************************************************************************)
(* capacity_optimizer.py: evaluate_link                                    *)
(***************************************************************************)
\* the tiers of the catalog, as a set
TierSet == {CAPACITY_TIERS[i] : i \in DOMAIN CAPACITY_TIERS}

\* mutant of FirstPassing: the last tier of CAPACITY_TIERS whose simulation
\* passed
LastPassing(tier_results) ==
    LET pass == {i \in DOMAIN CAPACITY_TIERS : tier_results[CAPACITY_TIERS[i]].sla_pass}
    IN  IF pass = {} THEN 0
        ELSE CAPACITY_TIERS[CHOOSE i \in pass : \A j \in pass : j <= i]

\* the first tier of CAPACITY_TIERS whose simulation passed, 0 for None
FirstPassing(tier_results) ==
    LET pass == {i \in DOMAIN CAPACITY_TIERS : tier_results[CAPACITY_TIERS[i]].sla_pass}
    IN  IF pass = {} THEN 0
        ELSE CAPACITY_TIERS[CHOOSE i \in pass : \A j \in pass : i <= j]

\* mutant of PeakBasedTier: always the last tier of the catalog
PeakBasedTierLast(peak_bits) == CAPACITY_TIERS[Len(CAPACITY_TIERS)]

\* what peak-based provisioning would choose: the first tier >= peak, the
\* last tier when there is none (peak_bits compared in bits)
PeakBasedTier(peak_bits) ==
    LET cover == {i \in DOMAIN CAPACITY_TIERS :
                     gbps_to_bits_per_slot(CAPACITY_TIERS[i]) >= peak_bits}
    IN  IF cover = {} THEN CAPACITY_TIERS[Len(CAPACITY_TIERS)]
        ELSE CAPACITY_TIERS[CHOOSE i \in cover : \A j \in cover : i <= j]

\* mutant of Savings: the difference divided by the recommended cost
SavingsOverRecommended(peak_cost, rec_cost) ==
    RoundHalfEven(Max(0, (peak_cost - rec_cost) * 100), rec_cost) * 10

\* round(max(0, (peak_cost - rec_cost) / peak_cost * 100), 0), held in
\* tenths of a percent
Savings(peak_cost, rec_cost) ==
    IF peak_cost > 0
    THEN RoundHalfEven(Max(0, (peak_cost - rec_cost) * 100), peak_cost) * 10
    ELSE 0

\* the part of evaluate_link after the tier loop: selection, peak-based
\* baseline and savings
LinkResult(link_id, traffic_bits_per_slot, tier_results) ==
    LET peak_bits == IF traffic_bits_per_slot # <<>>
                     THEN SeqMax(traffic_bits_per_slot) ELSE 0
        passing   == FirstPassing(tier_results)
        recommended_tier == IF passing = 0
                            THEN CAPACITY_TIERS[Len(CAPACITY_TIERS)]
                            ELSE passing
        reason == IF passing = 0 THEN "No tier meets SLA"
                  ELSE IF tier_results[passing].loss_percent = 0
                       THEN "Zero packet loss"
                       ELSE "Meets SLA"
        peak_based_tier == PeakBasedTier(peak_bits)
    IN  [link_id               |-> link_id,
         peak_bits             |-> peak_bits,
         recommended_tier_gbps |-> recommended_tier,
         reason                |-> reason,
         cost_savings_percent  |-> Savings(TIER_COSTS[peak_based_tier],
                                           TIER_COSTS[recommended_tier]),
         peak_based_tier       |-> peak_based_tier,
         tier_evaluation       |-> tier_results]

evaluate_link(link_id, traffic_bits_per_slot) ==
    LinkResult(link_id, traffic_bits_per_slot,
               [t \in TierSet |-> simulate_link(traffic_bits_per_slot, t)])

(***************************************************************************)
(* Fractions <<num, den>>, den > 0, standing for the code's float values   *)
(***************************************************************************)
RECURSIVE GCD(_, _)
GCD(a, b) == IF b = 0 THEN a ELSE GCD(b, a % b)

\* the fraction in lowest terms
Reduce(f) ==
    LET g == GCD(f[1], f[2])
    IN  IF g = 0 THEN f ELSE <<f[1] \div g, f[2] \div g>>

FracLeq(f, g) == f[1] * g[2] <= g[1] * f[2]

FracAdd(f, g) == Reduce(<<f[1] * g[2] + g[1] * f[2], f[2] * g[2]>>)

FracMin(f, g) == IF FracLeq(f, g) THEN f ELSE g

FracMax(f, g) == IF FracLeq(f, g) THEN g ELSE f

Zero == <<0, 1>>

One == <<1, 1>>

\* round(f, 4), held in units of 1e-4
Round4(f) == LET r == Reduce(f) IN RoundHalfEven(r[1] * 10000, r[2])

(***************************************************************************)
(* capacity_tier_recommendation.py: constants                              *)
(***************************************************************************)
\* the CAPACITY_TIERS dict of this file, in insertion order; relative_cost
\* in tenths (1.0, 2.2, 4.0)
REC_CAPACITY_TIERS ==
    << [tier_name |-> "10G", capacity_gbps |-> 10, relative_cost |-> 10],
       [tier_name |-> "25G", capacity_gbps |-> 25, relative_cost |-> 22],
       [tier_name |-> "50G", capacity_gbps |-> 50, relative_cost |-> 40] >>

\* 0.01 as a fraction
SLA_PACKET_LOSS_THRESHOLD == <<1, 100>>

(***************************************************************************)
(* capacity_tier_recommendation.py: simulate_link_performance              *)
(***************************************************************************)
\* the simulation state before the first slot
PerfStart == [buffer_occupancy |-> 0, loss_slots |-> 0,
              max_buffer_occupancy |-> 0, total_traffic |-> 0]

\* gbps * 1e9 * slot_duration_seconds, in the model's unit of bits
PerfBits(gbps) == gbps * SYMBOLS_PER_SLOT

\* buffer_size_bits = capacity_bits_per_slot * (buffer_symbols / SYMBOLS_PER_SLOT)
BufferSizeBits(capacity_bits_per_slot) ==
    (capacity_bits_per_slot * BUFFER_SYMBOLS) \div SYMBOLS_PER_SLOT

\* mutant of PerfOverflows: a remainder equal to the buffer size overflows
PerfOverflowsInclusive(remaining, buffer_size_bits) == remaining >= buffer_size_bits

\* the overflow test of simulate_link_performance
PerfOverflows(remaining, buffer_size_bits) == remaining > buffer_size_bits

\* one iteration of simulate_link_performance's loop: state p, this slot's
\* traffic in Gbps, the tier's capacity in Gbps
PerfSlot(p, traffic_gbps, capacity_gbps) ==
    LET capacity_bits_per_slot == PerfBits(capacity_gbps)
        buffer_size_bits == BufferSizeBits(capacity_bits_per_slot)
        traffic_bits == PerfBits(traffic_gbps)
        total_bits   == p.buffer_occupancy + traffic_bits
        transmitted  == Min(total_bits, capacity_bits_per_slot)
        remaining    == total_bits - transmitted
        overflow     == PerfOverflows(remaining, buffer_size_bits)
        occupancy    == IF overflow THEN buffer_size_bits ELSE remaining
    IN  [buffer_occupancy     |-> occupancy,
         loss_slots           |-> IF overflow THEN p.loss_slots + 1 ELSE p.loss_slots,
         max_buffer_occupancy |-> Max(p.max_buffer_occupancy, occupancy),
         total_traffic        |-> p.total_traffic + traffic_bits]

\* what simulate_link_performance returns from the state after the last
\* slot; the three ratios are fractions
PerfReturn(p, capacity_gbps, total_slots) ==
    LET capacity_bits_per_slot == PerfBits(capacity_gbps)
        buffer_size_bits == BufferSizeBits(capacity_bits_per_slot)
        total_capacity   == capacity_bits_per_slot * total_slots
    IN  [total_slots |-> total_slots,
         loss_slots  |-> p.loss_slots,
         loss_ratio  |-> IF total_slots > 0
                         THEN Reduce(<<p.loss_slots, total_slots>>) ELSE Zero,
         max_buffer_utilization |->
                         IF buffer_size_bits > 0
                         THEN Reduce(<<p.max_buffer_occupancy, buffer_size_bits>>)
                         ELSE Zero,
         avg_utilization |-> IF total_capacity > 0
                             THEN Reduce(<<p.total_traffic, total_capacity>>)
                             ELSE Zero]

RECURSIVE PerfRun(_, _, _)
\* simulate_link_performance's loop over a whole series
PerfRun(p, traffic_per_slot_gbps, capacity_gbps) ==
    IF traffic_per_slot_gbps = <<>> THEN p
    ELSE PerfRun(PerfSlot(p, Head(traffic_per_slot_gbps), capacity_gbps),
                 Tail(traffic_per_slot_gbps), capacity_gbps)

simulate_link_performance(traffic_per_slot_gbps, capacity_gbps) ==
    IF traffic_per_slot_gbps = <<>>
    THEN [total_slots |-> 0, loss_slots |-> 0, loss_ratio |-> Zero,
          max_buffer_utilization |-> Zero, avg_utilization |-> Zero]
    ELSE PerfReturn(PerfRun(PerfStart, traffic_per_slot_gbps, capacity_gbps),
                    capacity_gbps, Len(traffic_per_slot_gbps))

(***************************************************************************)
(* capacity_tier_recommendation.py: evaluate_capacity_tier                 *)
(* An Optional argument is a sequence: <<>> for None, <<v>> for a value.   *)
(* ml_congestion_risk is given in tenths.                                  *)
(***************************************************************************)
\* mutant of BelowPeak: the comparison reversed
BelowPeakReversed(tier_info, peak_traffic_gbps) ==
    tier_info.capacity_gbps > peak_traffic_gbps

\* the basic check: capacity below the peak traffic
BelowPeak(tier_info, peak_traffic_gbps) ==
    tier_info.capacity_gbps < peak_traffic_gbps

\* the evaluation returned when the capacity is below the peak
ImmediateFail(tier_info) ==
    [tier_name             |-> tier_info.tier_name,
     capacity_gbps         |-> tier_info.capacity_gbps,
     relative_cost         |-> tier_info.relative_cost,
     sla_pass              |-> FALSE,
     estimated_packet_loss |-> 10000,
     congestion_risk       |-> 10000,
     headroom_percent      |-> 0,
     reason                |-> "below peak"]

\* mutant of AnalyticEstimate: the utilization taken without the 15% that
\* the buffer absorbs
AnalyticEstimateNoAbsorption(tier_info, peak_traffic_gbps) ==
    LET c == tier_info.capacity_gbps
        effective == Max(0, 100 * peak_traffic_gbps)
        excess == effective - 85 * c
        loss == IF effective > 85 * c
                THEN FracMin(One, Reduce(<<excess * excess, 10 * (15 * c) * (15 * c)>>))
                ELSE Zero
        risk == FracMin(One, FracMax(Zero, <<2 * peak_traffic_gbps - c, c>>))
    IN  <<loss, risk>>

\* the estimate used without a series: <<estimated_packet_loss,
\* congestion_risk>> from the peak utilization
AnalyticEstimate(tier_info, peak_traffic_gbps) ==
    LET c == tier_info.capacity_gbps
        \* effective_utilization = max(0, peak/c - 0.15), over 100c
        effective == Max(0, 100 * peak_traffic_gbps - 15 * c)
        \* (effective_utilization - 0.85) / 0.15, over 15c
        excess == effective - 85 * c
        loss == IF effective > 85 * c
                THEN FracMin(One, Reduce(<<excess * excess, 10 * (15 * c) * (15 * c)>>))
                ELSE Zero
        \* (utilization - 0.5) / 0.5
        risk == FracMin(One, FracMax(Zero, <<2 * peak_traffic_gbps - c, c>>))
    IN  <<loss, risk>>

\* the optional penalty: risk + ml * 0.2, at most 1, when ml > 0.5
PenalizedRisk(congestion_risk, ml_congestion_risk) ==
    IF ml_congestion_risk # <<>> /\ ml_congestion_risk[1] > 5
    THEN FracMin(One, FracAdd(congestion_risk, <<ml_congestion_risk[1], 50>>))
    ELSE congestion_risk

\* mutant of SlaPass: the headroom requirement dropped
SlaPassLossOnly(estimated_packet_loss, congestion_risk, capacity_gbps, peak_traffic_gbps) ==
    FracLeq(estimated_packet_loss, SLA_PACKET_LOSS_THRESHOLD)

\* mutant of SlaPass: a high congestion risk fails the tier
SlaPassWithRisk(estimated_packet_loss, congestion_risk, capacity_gbps, peak_traffic_gbps) ==
    /\ FracLeq(estimated_packet_loss, SLA_PACKET_LOSS_THRESHOLD)
    /\ capacity_gbps > peak_traffic_gbps
    /\ ~ FracLeq(One, congestion_risk)

\* the SLA check: loss within the threshold and headroom
\* (capacity - peak) / capacity > 0
SlaPass(estimated_packet_loss, congestion_risk, capacity_gbps, peak_traffic_gbps) ==
    /\ FracLeq(estimated_packet_loss, SLA_PACKET_LOSS_THRESHOLD)
    /\ capacity_gbps > peak_traffic_gbps

\* mutant of EvaluationReason: the two failure explanations exchanged
EvaluationReasonSwapped(sla_pass, estimated_packet_loss) ==
    IF sla_pass THEN "meets SLA"
    ELSE IF FracLeq(estimated_packet_loss, SLA_PACKET_LOSS_THRESHOLD)
         THEN "packet loss"
         ELSE "insufficient headroom"

\* the explanation generated for an evaluation: "Meets SLA: loss=..,
\* headroom=..", "Fails SLA: packet loss .. > threshold" or "Fails SLA:
\* insufficient headroom"
EvaluationReason(sla_pass, estimated_packet_loss) ==
    IF sla_pass THEN "meets SLA"
    ELSE IF ~ FracLeq(estimated_packet_loss, SLA_PACKET_LOSS_THRESHOLD)
         THEN "packet loss"
         ELSE "insufficient headroom"

\* the end of evaluate_capacity_tier, from the loss and risk of the
\* simulation or of the estimate; estimated_packet_loss and congestion_risk
\* are held in units of 1e-4, headroom_percent in hundredths of a percent
Evaluation(tier_info, peak_traffic_gbps, estimated_packet_loss, risk, ml_congestion_risk) ==
    LET c == tier_info.capacity_gbps
        \* max(0, headroom * 100) over c; headroom is 0 unless c > 0
        headroom_percent == IF c > 0 THEN Max(0, (c - peak_traffic_gbps) * 100) ELSE 0
        congestion_risk  == PenalizedRisk(risk, ml_congestion_risk)
        sla_pass == SlaPass(estimated_packet_loss, congestion_risk, c, peak_traffic_gbps)
    IN  [tier_name             |-> tier_info.tier_name,
         capacity_gbps         |-> c,
         relative_cost         |-> tier_info.relative_cost,
         sla_pass              |-> sla_pass,
         estimated_packet_loss |-> Round4(estimated_packet_loss),
         congestion_risk       |-> Round4(congestion_risk),
         headroom_percent      |-> IF c > 0 THEN RoundHalfEven(headroom_percent * 100, c)
                                   ELSE 0,
         reason                |-> EvaluationReason(sla_pass, estimated_packet_loss)]

evaluate_capacity_tier(tier_info, peak_traffic_gbps, traffic_per_slot_gbps, ml_congestion_risk) ==
    IF BelowPeak(tier_info, peak_traffic_gbps) THEN ImmediateFail(tier_info)
    ELSE IF traffic_per_slot_gbps # <<>>
    THEN LET sim_result == simulate_link_performance(traffic_per_slot_gbps,
                                                     tier_info.capacity_gbps)
         IN  Evaluation(tier_info, peak_traffic_gbps, sim_result.loss_ratio,
                        sim_result.avg_utilization, ml_congestion_risk)
    ELSE LET est == AnalyticEstimate(tier_info, peak_traffic_gbps)
         IN  Evaluation(tier_info, peak_traffic_gbps, est[1], est[2], ml_congestion_risk)

(***************************************************************************)
(* capacity_tier_recommendation.py: recommend_capacity_tier                *)
(***************************************************************************)
RecTierNames == {REC_CAPACITY_TIERS[i].tier_name : i \in DOMAIN REC_CAPACITY_TIERS}

\* the catalog entry of a tier name
RecTier(name) ==
    REC_CAPACITY_TIERS[CHOOSE i \in DOMAIN REC_CAPACITY_TIERS :
                          REC_CAPACITY_TIERS[i].tier_name = name]

\* mutant of CheapestValid: the first passing tier in reverse catalog order
LastValid(tier_evaluations) ==
    LET valid == {i \in DOMAIN REC_CAPACITY_TIERS :
                     tier_evaluations[REC_CAPACITY_TIERS[i].tier_name].sla_pass}
    IN  IF valid = {} THEN ""
        ELSE REC_CAPACITY_TIERS[CHOOSE i \in valid : \A j \in valid : j <= i].tier_name

\* valid_tiers sorted by relative_cost (a stable sort: ties keep the dict's
\* order), first element; "" when no tier passes
CheapestValid(tier_evaluations) ==
    LET valid == {i \in DOMAIN REC_CAPACITY_TIERS :
                     tier_evaluations[REC_CAPACITY_TIERS[i].tier_name].sla_pass}
        Before(i, j) ==
            \/ tier_evaluations[REC_CAPACITY_TIERS[i].tier_name].relative_cost
                 < tier_evaluations[REC_CAPACITY_TIERS[j].tier_name].relative_cost
            \/ /\ tier_evaluations[REC_CAPACITY_TIERS[i].tier_name].relative_cost
                    = tier_evaluations[REC_CAPACITY_TIERS[j].tier_name].relative_cost
               /\ i <= j
    IN  IF valid = {} THEN ""
        ELSE REC_CAPACITY_TIERS[CHOOSE i \in valid : \A j \in valid : Before(i, j)].tier_name

\* the part of recommend_capacity_tier after the tier loop;
\* cost_savings_percent is round(.., 1), held in tenths of a percent
Recommendation(link_id, peak_traffic_gbps, ml_congestion_risk, tier_evaluations) ==
    LET cheapest == CheapestValid(tier_evaluations)
        recommended_tier_name == IF cheapest # "" THEN cheapest ELSE "50G"
        peak_based_cost  == RecTier("50G").relative_cost
        recommended_cost == RecTier(recommended_tier_name).relative_cost
    IN  [link_id                   |-> link_id,
         peak_traffic_gbps         |-> peak_traffic_gbps,
         tier_evaluations          |-> tier_evaluations,
         recommended_tier          |-> recommended_tier_name,
         recommended_capacity_gbps |-> RecTier(recommended_tier_name).capacity_gbps,
         cost_savings_percent      |->
             RoundHalfEven((peak_based_cost - recommended_cost) * 1000, peak_based_cost),
         ml_congestion_risk        |-> IF ml_congestion_risk # <<>> /\ ml_congestion_risk[1] # 0
                                       THEN ml_congestion_risk ELSE <<>>,
         reason                    |-> IF cheapest # "" THEN "lowest-cost option meeting SLA"
                                       ELSE "No tier fully meets SLA"]

recommend_capacity_tier(link_id, peak_traffic_gbps, traffic_per_slot_gbps, ml_congestion_risk) ==
    Recommendation(link_id, peak_traffic_gbps, ml_congestion_risk,
        [n \in RecTierNames |->
            evaluate_capacity_tier(RecTier(n), peak_traffic_gbps,
                                   traffic_per_slot_gbps, ml_congestion_risk)])

(***************************************************************************)
(* capacity_tier_recommendation.py: generate_capacity_recommendations      *)
(* A link of link_data is a dict: its peakTraffic is <<>> when the key is  *)
(* absent, its traffic_per_slot_gbps is <<>> when the key is absent.       *)
(* ml_predictions is <<>> for None, else a dict of risks in tenths.        *)
(***************************************************************************)
\* link.get("peakTraffic", link.get("peak_traffic_gbps", 0))
PeakOf(link) == IF link.peakTraffic = <<>> THEN 0 ELSE link.peakTraffic[1]

\* ml_predictions.get(link_id) if ml_predictions else None
MlRiskOf(ml_predictions, link_id) ==
    IF ml_predictions = <<>> THEN <<>>
    ELSE IF \E i \in DOMAIN ml_predictions : ml_predictions[i].key = link_id
    THEN ml_predictions[CHOOSE i \in DOMAIN ml_predictions :
                           ml_predictions[i].key = link_id].value
    ELSE <<>>

\* the body of the loop over link_data: the recommendation appended for a link
LinkRecommendation(link, ml_predictions) ==
    recommend_capacity_tier(link.link_id, PeakOf(link), link.traffic_per_slot_gbps,
                            MlRiskOf(ml_predictions, link.link_id))

RECURSIVE generate_capacity_recommendations(_, _)
\* a whole call of generate_capacity_recommendations
generate_capacity_recommendations(link_data, ml_predictions) ==
    IF link_data = <<>> THEN <<>>
    ELSE <<LinkRecommendation(Head(link_data), ml_predictions)>>
         \o generate_capacity_recommendations(Tail(link_data), ml_predictions)

(***************************************************************************)
(* capacity_optimizer.py: optimize_all_links                               *)
(* A dict is the sequence of its [key, value] items in insertion order.    *)
(* A link identifier is a string, held as the sequence of its digits, and  *)
(* compared as Python compares strings.                                    *)
(***************************************************************************)
\* the identifiers "1", "10" and "2"
LinkIds == {<<1>>, <<1, 0>>, <<2>>}

RECURSIVE StrLess(_, _)
\* a < b on strings: lexicographic, a proper prefix first
StrLess(a, b) ==
    IF b = <<>> THEN FALSE
    ELSE IF a = <<>> THEN TRUE
    ELSE IF a[1] # b[1] THEN a[1] < b[1]
    ELSE StrLess(Tail(a), Tail(b))

\* the keys of a dict, in insertion order
Keys(d) == [i \in DOMAIN d |-> d[i].key]

\* dict.get(key, default)
Get(d, key, default) ==
    IF \E i \in DOMAIN d : d[i].key = key
    THEN d[CHOOSE i \in DOMAIN d : d[i].key = key].value
    ELSE default

RECURSIVE SortedStrings(_)
\* the strings of a set in ascending order
SortedStrings(S) ==
    IF S = {} THEN <<>>
    ELSE LET m == CHOOSE x \in S : \A y \in S \ {x} : StrLess(x, y)
         IN  <<m>> \o SortedStrings(S \ {m})

\* mutant of LinkOrder: the keys taken in the dict's insertion order
LinkOrderUnsorted(link_cells) == Keys(link_cells)

\* sorted(link_cells.keys())
LinkOrder(link_cells) ==
    SortedStrings({link_cells[i].key : i \in DOMAIN link_cells})

\* one iteration of the grouping loop: the cell appended to its link's list
GroupCellInto(link_cells, cell_id, link_id) ==
    IF \E i \in DOMAIN link_cells : link_cells[i].key = link_id
    THEN [i \in DOMAIN link_cells |->
             IF link_cells[i].key = link_id
             THEN [link_cells[i] EXCEPT !.value = Append(@, cell_id)]
             ELSE link_cells[i]]
    ELSE Append(link_cells, [key |-> link_id, value |-> <<cell_id>>])

\* f"{tier}G"
TierLabel(t) == CASE t = 10 -> "10G" [] t = 25 -> "25G" [] t = 50 -> "50G"

\* int(label.replace("G", ""))
TierOfLabel(label) == CHOOSE t \in TierSet : TierLabel(t) = label

RECURSIVE SavingsSum(_)
\* the sum of the cost_savings_percent of the links of a report
SavingsSum(links) ==
    IF links = <<>> THEN 0
    ELSE Head(links).cost_savings_percent + SavingsSum(Tail(links))

\* mutant of BatchReport: the overall savings taken as the mean of the
\* links' percentages
BatchReportMean(links, total_rec_cost, total_peak_cost) ==
    [links   |-> links,
     summary |-> [total_links |-> Len(links),
                  overall_cost_savings_percent |->
                      IF links # <<>>
                      THEN RoundHalfEven(SavingsSum(links), 10 * Len(links))
                      ELSE 0],
     reason  |-> "report"]

\* what optimize_all_links returns; overall_cost_savings_percent is
\* round(.., 0), in percent
BatchReport(links, total_rec_cost, total_peak_cost) ==
    [links   |-> links,
     summary |-> [total_links |-> Len(links),
                  overall_cost_savings_percent |->
                      IF total_peak_cost > 0
                      THEN RoundHalfEven((total_peak_cost - total_rec_cost) * 100,
                                         total_peak_cost)
                      ELSE 0],
     reason  |-> "report"]

\* optimize_all_links' locals before its loops
BatchStart == [item |-> 1, link_cells |-> <<>>, order |-> <<>>, visit |-> 1,
               links |-> <<>>, total_rec_cost |-> 0, total_peak_cost |-> 0]

\* mutant of Visited: the peak slot of the link evaluated before is carried
\* into the series of this link
VisitedCarrying(batch, link_id, series) ==
    LET carried == IF batch.links = <<>> THEN series
                   ELSE <<batch.links[Len(batch.links)].peak_bits>> \o series
        res     == evaluate_link(link_id, carried)
        peak_tier == TierOfLabel(TierLabel(res.peak_based_tier))
    IN  [batch EXCEPT
            !.visit = @ + 1,
            !.links = Append(@, res),
            !.total_rec_cost = @ + TIER_COSTS[res.recommended_tier_gbps],
            !.total_peak_cost = @ + TIER_COSTS[peak_tier]]

\* the body of the link loop for a link with traffic: the link evaluated,
\* its result appended and its costs accumulated
Visited(batch, link_id, series) ==
    LET res     == evaluate_link(link_id, series)
        peak_tier == TierOfLabel(TierLabel(res.peak_based_tier))
    IN  [batch EXCEPT
            !.visit = @ + 1,
            !.links = Append(@, res),
            !.total_rec_cost = @ + TIER_COSTS[res.recommended_tier_gbps],
            !.total_peak_cost = @ + TIER_COSTS[peak_tier]]

RECURSIVE GroupAll(_, _)
\* the grouping loop over the items of topology
GroupAll(link_cells, items) ==
    IF items = <<>> THEN link_cells
    ELSE GroupAll(GroupCellInto(link_cells, Head(items).key, Head(items).value),
                  Tail(items))

RECURSIVE VisitAll(_, _)
\* the link loop from batch.visit on
VisitAll(batch, link_traffic) ==
    IF batch.visit > Len(batch.order) THEN batch
    ELSE LET link_id == batch.order[batch.visit]
             series  == Get(link_traffic, link_id, <<>>)
         IN  VisitAll(IF series = <<>> THEN [batch EXCEPT !.visit = @ + 1]
                      ELSE Visited(batch, link_id, series),
                      link_traffic)

\* a whole call of optimize_all_links
optimize_all_links(topology, link_traffic) ==
    LET link_cells == GroupAll(<<>>, topology)
        batch == VisitAll([BatchStart EXCEPT !.item = Len(topology) + 1,
                                             !.link_cells = link_cells,
                                             !.order = LinkOrder(link_cells)],
                          link_traffic)
    IN  BatchReport(batch.links, batch.total_rec_cost, batch.total_peak_cost)

(***************************************************************************)
(* State                                                                   *)
(***************************************************************************)
VARIABLES
    call,             \* the entry point called
    pc,               \* where the call stands
    traffic,          \* the series argument (bits per slot, or Gbps per slot)
    peak,             \* recommend_capacity_tier's peak_traffic_gbps
    ml,               \* recommend_capacity_tier's ml_congestion_risk
    tier,             \* index of the tier being evaluated
    slot,             \* index of the next slot of the running simulation
    sim,              \* simulate_link's locals
    perf,             \* simulate_link_performance's locals
    tier_results,     \* evaluate_link's tier_results, filled tier by tier
    tier_evaluations, \* recommend_capacity_tier's tier_evaluations
    topology,         \* optimize_all_links' topology: cell_id -> link_id
    link_traffic,     \* optimize_all_links' link_traffic: link_id -> series
    batch,            \* optimize_all_links' locals
    capacity,         \* the capacity_gbps argument of a direct call
    link_data,        \* generate_capacity_recommendations' link_data
    ml_predictions,   \* generate_capacity_recommendations' ml_predictions
    recommendations,  \* generate_capacity_recommendations' locals
    result            \* what the call returned, NoResult before it returns

vars == <<call, pc, traffic, peak, ml, tier, slot, sim, perf, tier_results,
          tier_evaluations, topology, link_traffic, batch, capacity, link_data,
          ml_predictions, recommendations, result>>

NoResult == [reason |-> "none"]

\* series of at most n slots over a set of demands
SeriesUpTo(n, demands) == UNION {[1..k -> demands] : k \in 0..n}

BitDemands == {gbps_to_bits_per_slot(d) : d \in Demands}

\* peak_traffic_gbps arguments: none, a tier's capacity, between tiers,
\* above every tier
Peaks == {0, 10, 12, 25, 50, 60}

\* ml_congestion_risk arguments: None, 0.4, 0.9
MlRisks == {<<>>, <<4>>, <<9>>}

\* the series of the links of a batch: no slots, no loss on 10G, loss on
\* every tier
BatchSeries == {<<>>,
                <<gbps_to_bits_per_slot(8), gbps_to_bits_per_slot(12)>>,
                <<gbps_to_bits_per_slot(100)>>}

\* the dicts with distinct keys from K, values from V, items in any order
Dicts(K, V) ==
    {d \in UNION {[1..n -> [key : K, value : V]] : n \in 0..Cardinality(K)} :
        \A i, j \in DOMAIN d : i # j => d[i].key # d[j].key}

\* the links of a list given to generate_capacity_recommendations: a dict
\* with or without a peak, with or without a series
LinkDicts == [link_id : {<<1>>, <<2>>},
              peakTraffic : {<<>>, <<12>>, <<60>>},
              traffic_per_slot_gbps : {<<>>, <<8, 12>>, <<100>>}]

\* ml_predictions arguments: None, and a dict with 0.9 for link "1"
MlPredictions == {<<>>, <<[key |-> <<1>>, value |-> <<9>>]>>}

RecommendationsStart == [next |-> 1, list |-> <<>>]

Idle ==
    /\ tier = 1 /\ slot = 1 /\ sim = SimStart /\ perf = PerfStart
    /\ tier_results = <<>> /\ tier_evaluations = <<>>
    /\ batch = BatchStart /\ result = NoResult
    /\ recommendations = RecommendationsStart

\* the arguments of the other entry points
NoBatchArgs ==
    /\ topology = <<>> /\ link_traffic = <<>>
    /\ capacity = 0 /\ link_data = <<>> /\ ml_predictions = <<>>

InitEvaluateLink ==
    /\ call = "evaluate_link"
    /\ pc = "simulate"
    /\ traffic \in SeriesUpTo(MaxLen, BitDemands)
    /\ peak = 0 /\ ml = <<>>
    /\ NoBatchArgs
    /\ Idle

InitRecommend ==
    /\ call = "recommend_capacity_tier"
    /\ pc = "evaluate"
    /\ traffic \in SeriesUpTo(MaxPerfLen, Demands)
    /\ peak \in Peaks
    /\ ml \in MlRisks
    /\ NoBatchArgs
    /\ Idle

InitOptimize ==
    /\ call = "optimize_all_links"
    /\ pc = "group"
    /\ topology \in Dicts(1..MaxCells, LinkIds)
    /\ link_traffic \in Dicts(LinkIds, BatchSeries)
    /\ traffic = <<>> /\ peak = 0 /\ ml = <<>>
    /\ capacity = 0 /\ link_data = <<>> /\ ml_predictions = <<>>
    /\ Idle

InitGenerate ==
    /\ call = "generate_capacity_recommendations"
    /\ pc = "links"
    /\ link_data \in UNION {[1..n -> LinkDicts] : n \in 0..MaxLinks}
    /\ ml_predictions \in MlPredictions
    /\ traffic = <<>> /\ peak = 0 /\ ml = <<>>
    /\ topology = <<>> /\ link_traffic = <<>> /\ capacity = 0
    /\ Idle

Init == InitEvaluateLink \/ InitRecommend \/ InitOptimize \/ InitGenerate

(***************************************************************************)
(* Steps of evaluate_link                                                  *)
(***************************************************************************)
\* simulate_link processes the next slot of the series for the current tier
SimulateSlot ==
    /\ call = "evaluate_link" /\ pc = "simulate"
    /\ slot <= Len(traffic)
    /\ sim' = SimSlot(sim, traffic[slot], CAPACITY_TIERS[tier])
    /\ slot' = slot + 1
    /\ UNCHANGED <<call, capacity, link_data, ml_predictions, recommendations,
                   pc, traffic, peak, ml, tier, perf, tier_results,
                   tier_evaluations, topology, link_traffic, batch, result>>

\* simulate_link returns; evaluate_link stores the result and goes on to the
\* next tier, or leaves the tier loop
SimulateReturn ==
    /\ call = "evaluate_link" /\ pc = "simulate"
    /\ slot > Len(traffic)
    /\ tier_results' = tier_results @@
          (CAPACITY_TIERS[tier] :> SimReturn(sim, CAPACITY_TIERS[tier], Len(traffic)))
    /\ IF tier < Len(CAPACITY_TIERS)
       THEN /\ tier' = tier + 1
            /\ pc' = pc
       ELSE /\ tier' = tier
            /\ pc' = "select"
    /\ slot' = 1
    /\ sim' = SimStart
    /\ UNCHANGED <<call, capacity, link_data, ml_predictions, recommendations,
                   traffic, peak, ml, perf, tier_evaluations, topology,
                   link_traffic, batch, result>>

\* evaluate_link selects the tier and returns
SelectTier ==
    /\ call = "evaluate_link" /\ pc = "select"
    /\ result' = LinkResult("link", traffic, tier_results)
    /\ pc' = "done"
    /\ UNCHANGED <<call, capacity, link_data, ml_predictions, recommendations,
                   traffic, peak, ml, tier, slot, sim, perf, tier_results,
                   tier_evaluations, topology, link_traffic, batch>>

(***************************************************************************)
(* Steps of recommend_capacity_tier                                        *)
(***************************************************************************)
\* the tier loop stores an evaluation and goes on to the next tier, or
\* leaves the loop
StoreEvaluation(evaluation) ==
    /\ tier_evaluations' = tier_evaluations @@
          (REC_CAPACITY_TIERS[tier].tier_name :> evaluation)
    /\ IF tier < Len(REC_CAPACITY_TIERS)
       THEN /\ tier' = tier + 1
            /\ pc' = "evaluate"
       ELSE /\ tier' = tier
            /\ pc' = "recommend"
    /\ slot' = 1
    /\ perf' = PerfStart

\* evaluate_capacity_tier: the capacity is below the peak
EvaluateBelowPeak ==
    /\ call = "recommend_capacity_tier" /\ pc = "evaluate"
    /\ BelowPeak(REC_CAPACITY_TIERS[tier], peak)
    /\ StoreEvaluation(ImmediateFail(REC_CAPACITY_TIERS[tier]))
    /\ UNCHANGED <<call, capacity, link_data, ml_predictions, recommendations,
                   traffic, peak, ml, sim, tier_results, topology,
                   link_traffic, batch, result>>

\* evaluate_capacity_tier without a series: the analytic estimate
EvaluateAnalytic ==
    /\ call = "recommend_capacity_tier" /\ pc = "evaluate"
    /\ ~ BelowPeak(REC_CAPACITY_TIERS[tier], peak)
    /\ traffic = <<>>
    /\ LET est == AnalyticEstimate(REC_CAPACITY_TIERS[tier], peak)
       IN  StoreEvaluation(Evaluation(REC_CAPACITY_TIERS[tier], peak, est[1], est[2], ml))
    /\ UNCHANGED <<call, capacity, link_data, ml_predictions, recommendations,
                   traffic, peak, ml, sim, tier_results, topology,
                   link_traffic, batch, result>>

\* evaluate_capacity_tier with a series: simulate_link_performance
\* processes the next slot
PerformanceSlot ==
    /\ call = "recommend_capacity_tier" /\ pc = "evaluate"
    /\ ~ BelowPeak(REC_CAPACITY_TIERS[tier], peak)
    /\ traffic # <<>>
    /\ slot <= Len(traffic)
    /\ perf' = PerfSlot(perf, traffic[slot], REC_CAPACITY_TIERS[tier].capacity_gbps)
    /\ slot' = slot + 1
    /\ UNCHANGED <<call, capacity, link_data, ml_predictions, recommendations,
                   pc, traffic, peak, ml, tier, sim, tier_results,
                   tier_evaluations, topology, link_traffic, batch, result>>

\* simulate_link_performance returns and evaluate_capacity_tier finishes
PerformanceReturn ==
    /\ call = "recommend_capacity_tier" /\ pc = "evaluate"
    /\ ~ BelowPeak(REC_CAPACITY_TIERS[tier], peak)
    /\ traffic # <<>>
    /\ slot > Len(traffic)
    /\ LET sim_result == PerfReturn(perf, REC_CAPACITY_TIERS[tier].capacity_gbps,
                                    Len(traffic))
       IN  StoreEvaluation(Evaluation(REC_CAPACITY_TIERS[tier], peak,
                                      sim_result.loss_ratio,
                                      sim_result.avg_utilization, ml))
    /\ UNCHANGED <<call, capacity, link_data, ml_predictions, recommendations,
                   traffic, peak, ml, sim, tier_results, topology,
                   link_traffic, batch, result>>

\* recommend_capacity_tier selects the tier and returns
Recommend ==
    /\ call = "recommend_capacity_tier" /\ pc = "recommend"
    /\ result' = Recommendation("link", peak, ml, tier_evaluations)
    /\ pc' = "done"
    /\ UNCHANGED <<call, capacity, link_data, ml_predictions, recommendations,
                   traffic, peak, ml, tier, slot, sim, perf, tier_results,
                   tier_evaluations, topology, link_traffic, batch>>

(***************************************************************************)
(* Steps of optimize_all_links                                             *)
(***************************************************************************)
\* the grouping loop takes the next item of topology
GroupCell ==
    /\ call = "optimize_all_links" /\ pc = "group"
    /\ batch.item <= Len(topology)
    /\ batch' = [batch EXCEPT
          !.item = @ + 1,
          !.link_cells = GroupCellInto(@, topology[batch.item].key,
                                       topology[batch.item].value)]
    /\ UNCHANGED <<call, capacity, link_data, ml_predictions, recommendations,
                   pc, traffic, peak, ml, tier, slot, sim, perf,
                   tier_results, tier_evaluations, topology, link_traffic, result>>

\* the grouping loop ends; the link loop's order is fixed
SortLinks ==
    /\ call = "optimize_all_links" /\ pc = "group"
    /\ batch.item > Len(topology)
    /\ batch' = [batch EXCEPT !.order = LinkOrder(batch.link_cells)]
    /\ pc' = "links"
    /\ UNCHANGED <<call, capacity, link_data, ml_predictions, recommendations,
                   traffic, peak, ml, tier, slot, sim, perf, tier_results,
                   tier_evaluations, topology, link_traffic, result>>

\* the link loop reaches a link without traffic and goes on
SkipLink ==
    /\ call = "optimize_all_links" /\ pc = "links"
    /\ batch.visit <= Len(batch.order)
    /\ Get(link_traffic, batch.order[batch.visit], <<>>) = <<>>
    /\ batch' = [batch EXCEPT !.visit = @ + 1]
    /\ UNCHANGED <<call, capacity, link_data, ml_predictions, recommendations,
                   pc, traffic, peak, ml, tier, slot, sim, perf,
                   tier_results, tier_evaluations, topology, link_traffic, result>>

\* the link loop evaluates a link and accumulates its costs
VisitLink ==
    /\ call = "optimize_all_links" /\ pc = "links"
    /\ batch.visit <= Len(batch.order)
    /\ LET link_id == batch.order[batch.visit]
           series  == Get(link_traffic, link_id, <<>>)
       IN  /\ series # <<>>
           /\ batch' = Visited(batch, link_id, series)
    /\ UNCHANGED <<call, capacity, link_data, ml_predictions, recommendations,
                   pc, traffic, peak, ml, tier, slot, sim, perf,
                   tier_results, tier_evaluations, topology, link_traffic, result>>

\* optimize_all_links computes the overall savings and returns
Summarize ==
    /\ call = "optimize_all_links" /\ pc = "links"
    /\ batch.visit > Len(batch.order)
    /\ result' = BatchReport(batch.links, batch.total_rec_cost, batch.total_peak_cost)
    /\ pc' = "done"
    /\ UNCHANGED <<call, capacity, link_data, ml_predictions, recommendations,
                   traffic, peak, ml, tier, slot, sim, perf, tier_results,
                   tier_evaluations, topology, link_traffic, batch>>

(***************************************************************************)
(* Steps of generate_capacity_recommendations                              *)
(***************************************************************************)
\* the loop recommends a tier for the next link of the list
RecommendLink ==
    /\ call = "generate_capacity_recommendations" /\ pc = "links"
    /\ recommendations.next <= Len(link_data)
    /\ recommendations' = [recommendations EXCEPT
          !.next = @ + 1,
          !.list = Append(@, LinkRecommendation(link_data[recommendations.next],
                                                ml_predictions))]
    /\ UNCHANGED <<call, pc, traffic, peak, ml, tier, slot, sim, perf,
                   tier_results, tier_evaluations, topology, link_traffic, batch,
                   capacity, link_data, ml_predictions, result>>

\* generate_capacity_recommendations returns the list
ReturnRecommendations ==
    /\ call = "generate_capacity_recommendations" /\ pc = "links"
    /\ recommendations.next > Len(link_data)
    /\ result' = [recommendations |-> recommendations.list,
                  reason |-> "recommendations"]
    /\ pc' = "done"
    /\ UNCHANGED <<call, traffic, peak, ml, tier, slot, sim, perf, tier_results,
                   tier_evaluations, topology, link_traffic, batch, capacity,
                   link_data, ml_predictions, recommendations>>

Next ==
    \/ SimulateSlot
    \/ SimulateReturn
    \/ SelectTier
    \/ EvaluateBelowPeak
    \/ EvaluateAnalytic
    \/ PerformanceSlot
    \/ PerformanceReturn
    \/ Recommend
    \/ GroupCell
    \/ SortLinks
    \/ SkipLink
    \/ VisitLink
    \/ Summarize
    \/ RecommendLink
    \/ ReturnRecommendations

Spec == Init /\ [][Next]_vars

(***************************************************************************)
(* The end-to-end scenario: one link whose series is 1000 slots at a       *)
(* constant 8 Gbps, given to evaluate_link (in bits per slot) and to       *)
(* recommend_capacity_tier (in Gbps per slot, with the peak of the series) *)
(***************************************************************************)
ScenarioGbps == [i \in 1..1000 |-> 8]

InitScenario ==
    /\ \/ /\ call = "evaluate_link"
          /\ pc = "simulate"
          /\ traffic = [i \in DOMAIN ScenarioGbps |->
                           gbps_to_bits_per_slot(ScenarioGbps[i])]
          /\ peak = 0 /\ ml = <<>>
       \/ /\ call = "recommend_capacity_tier"
          /\ pc = "evaluate"
          /\ traffic = ScenarioGbps
          /\ peak = SeqMax(ScenarioGbps)
          /\ ml \in MlRisks
    /\ NoBatchArgs
    /\ Idle

ScenarioNext ==
    \/ SimulateSlot
    \/ SimulateReturn
    \/ SelectTier
    \/ PerformanceSlot
    \/ PerformanceReturn
    \/ Recommend

ScenarioSpec == InitScenario /\ [][ScenarioNext]_vars

(***************************************************************************)
(* evaluate_link on a series of 299 slots at 8 Gbps of which three, far    *)
(* apart, carry 100 Gbps: every tier loses exactly those three slots,      *)
(* 1.0033..% of the traffic slots.                                         *)
(***************************************************************************)
RoundingGbps == [i \in 1..299 |-> IF i \in {1, 101, 201} THEN 100 ELSE 8]

InitRounding ==
    /\ call = "evaluate_link"
    /\ pc = "simulate"
    /\ traffic = [i \in DOMAIN RoundingGbps |-> gbps_to_bits_per_slot(RoundingGbps[i])]
    /\ peak = 0 /\ ml = <<>>
    /\ NoBatchArgs
    /\ Idle

RoundingNext ==
    \/ SimulateSlot
    \/ SimulateReturn
    \/ SelectTier

RoundingSpec == InitRounding /\ [][RoundingNext]_vars

(***************************************************************************)
(* Direct calls of simulate_link, simulate_link_performance and            *)
(* evaluate_capacity_tier with a capacity that need not be a tier of the   *)
(* catalog. An exception raised by the call is the result [raised |-> e].  *)
(***************************************************************************)
DirectCalls == {"simulate_link", "simulate_link_performance", "evaluate_capacity_tier"}

\* capacity_gbps arguments: negative, zero, a valid tier
DirectCapacities == {0 - 10, 0, 10}

\* demands of the series of a direct call, in Gbps
DirectDemands == {0, 8, 30}

\* the tier_info of a direct call of evaluate_capacity_tier
DirectTier(capacity_gbps) ==
    [tier_name |-> "direct", capacity_gbps |-> capacity_gbps, relative_cost |-> 10]

Raised(exception) == [raised |-> exception]

\* utilization = peak_traffic_gbps / capacity_gbps divides by zero
DividesByZero(tier_info, peak_traffic_gbps, traffic_per_slot_gbps) ==
    /\ ~ BelowPeak(tier_info, peak_traffic_gbps)
    /\ traffic_per_slot_gbps = <<>>
    /\ tier_info.capacity_gbps = 0

InitDirect ==
    /\ call \in DirectCalls
    /\ pc = "called"
    /\ capacity \in DirectCapacities
    /\ \E series \in SeriesUpTo(MaxPerfLen, DirectDemands) :
          traffic = IF call = "simulate_link"
                    THEN [i \in DOMAIN series |-> gbps_to_bits_per_slot(series[i])]
                    ELSE series
    /\ IF call = "evaluate_capacity_tier"
       THEN peak \in Peaks /\ ml \in MlRisks
       ELSE peak = 0 /\ ml = <<>>
    /\ topology = <<>> /\ link_traffic = <<>>
    /\ link_data = <<>> /\ ml_predictions = <<>>
    /\ Idle

\* simulate_link, called directly, processes the next slot
DirectSimulateSlot ==
    /\ call = "simulate_link" /\ pc = "called"
    /\ slot <= Len(traffic)
    /\ sim' = SimSlot(sim, traffic[slot], capacity)
    /\ slot' = slot + 1
    /\ UNCHANGED <<call, pc, traffic, peak, ml, tier, perf, tier_results,
                   tier_evaluations, topology, link_traffic, batch, capacity,
                   link_data, ml_predictions, recommendations, result>>

\* simulate_link, called directly, returns
DirectSimulateReturn ==
    /\ call = "simulate_link" /\ pc = "called"
    /\ slot > Len(traffic)
    /\ result' = SimReturn(sim, capacity, Len(traffic))
    /\ pc' = "done"
    /\ UNCHANGED <<call, traffic, peak, ml, tier, slot, sim, perf, tier_results,
                   tier_evaluations, topology, link_traffic, batch, capacity,
                   link_data, ml_predictions, recommendations>>

\* simulate_link_performance, called directly, processes the next slot
DirectPerformanceSlot ==
    /\ call = "simulate_link_performance" /\ pc = "called"
    /\ slot <= Len(traffic)
    /\ perf' = PerfSlot(perf, traffic[slot], capacity)
    /\ slot' = slot + 1
    /\ UNCHANGED <<call, pc, traffic, peak, ml, tier, sim, tier_results,
                   tier_evaluations, topology, link_traffic, batch, capacity,
                   link_data, ml_predictions, recommendations, result>>

\* simulate_link_performance, called directly, returns: at once for an
\* empty series, else after the last slot
DirectPerformanceReturn ==
    /\ call = "simulate_link_performance" /\ pc = "called"
    /\ slot > Len(traffic)
    /\ result' = IF traffic = <<>>
                 THEN simulate_link_performance(traffic, capacity)
                 ELSE PerfReturn(perf, capacity, Len(traffic))
    /\ pc' = "done"
    /\ UNCHANGED <<call, traffic, peak, ml, tier, slot, sim, perf, tier_results,
                   tier_evaluations, topology, link_traffic, batch, capacity,
                   link_data, ml_predictions, recommendations>>

\* evaluate_capacity_tier, called directly, returns or raises
DirectEvaluate ==
    /\ call = "evaluate_capacity_tier" /\ pc = "called"
    /\ result' = IF DividesByZero(DirectTier(capacity), peak, traffic)
                 THEN Raised("ZeroDivisionError")
                 ELSE evaluate_capacity_tier(DirectTier(capacity), peak, traffic, ml)
    /\ pc' = "done"
    /\ UNCHANGED <<call, traffic, peak, ml, tier, slot, sim, perf, tier_results,
                   tier_evaluations, topology, link_traffic, batch, capacity,
                   link_data, ml_predictions, recommendations>>

DirectNext ==
    \/ DirectSimulateSlot
    \/ DirectSimulateReturn
    \/ DirectPerformanceSlot
    \/ DirectPerformanceReturn
    \/ DirectEvaluate

DirectSpec == InitDirect /\ [][DirectNext]_vars

(***************************************************************************)
(* Properties                                                              *)
(***************************************************************************)
LinkDone == call = "evaluate_link" /\ pc = "done"

RecDone == call = "recommend_capacity_tier" /\ pc = "done"

BatchDone == call = "optimize_all_links" /\ pc = "done"

\* the tiers of a catalog that pass under direct per-tier evaluation
LinkPassing == {t \in TierSet : simulate_link(traffic, t).sla_pass}

RecPassing ==
    {n \in RecTierNames :
        evaluate_capacity_tier(RecTier(n), peak, traffic, ml).sla_pass}

\* C1: the Link Recommender returns the lowest-cost tier among those whose
\* direct evaluation passes the SLA, and the highest-cost tier of the
\* catalog, with the "no tier meets SLA" reason, when none passes; the tier
\* returned is always one of the catalog.
C1_LowestCostPassingTier ==
    /\ LinkDone =>
          LET rec == result.recommended_tier_gbps
          IN  /\ rec \in TierSet
              /\ LinkPassing # {} =>
                    /\ rec \in LinkPassing
                    /\ \A t \in LinkPassing : TIER_COSTS[rec] <= TIER_COSTS[t]
                    /\ result.reason # "No tier meets SLA"
              /\ LinkPassing = {} =>
                    /\ \A t \in TierSet : TIER_COSTS[t] <= TIER_COSTS[rec]
                    /\ rec = 50
                    /\ result.reason = "No tier meets SLA"
    /\ RecDone =>
          LET rec == result.recommended_tier
          IN  /\ rec \in RecTierNames
              /\ RecPassing # {} =>
                    /\ rec \in RecPassing
                    /\ \A n \in RecPassing :
                          RecTier(rec).relative_cost <= RecTier(n).relative_cost
                    /\ result.reason # "No tier fully meets SLA"
              /\ RecPassing = {} =>
                    /\ \A n \in RecTierNames :
                          RecTier(n).relative_cost <= RecTier(rec).relative_cost
                    /\ rec = "50G"
                    /\ result.reason = "No tier fully meets SLA"

\* recommend_capacity_tier returned 25G where 10G fails and 50G passes too
C1_Witness ==
    /\ RecDone
    /\ result.recommended_tier = "25G"
    /\ ~ result.tier_evaluations["10G"].sla_pass
    /\ result.tier_evaluations["50G"].sla_pass
    /\ traffic # <<>>

\* C2: the cost_savings_percent of every recommendation lies in [0, 100]
\* (the field is held in tenths of a percent).
C2_SavingsWithinRange ==
    (LinkDone \/ RecDone) =>
        /\ 0 <= result.cost_savings_percent
        /\ result.cost_savings_percent <= 1000

\* evaluate_link returned savings strictly between 0 and 100 percent
C2_Witness ==
    /\ LinkDone
    /\ result.recommended_tier_gbps = 10
    /\ result.peak_based_tier = 25
    /\ result.cost_savings_percent = 600

\* C3: for a fixed series, a tier of larger capacity never has more loss
\* slots, nor a larger loss ratio, than a tier of smaller capacity, in
\* simulate_link and in simulate_link_performance.
C3_MoreCapacityNeverMoreLoss ==
    /\ call = "evaluate_link" =>
          \A a, b \in DOMAIN tier_results :
             a > b =>
                /\ tier_results[a].loss_slots <= tier_results[b].loss_slots
                /\ tier_results[a].loss_percent <= tier_results[b].loss_percent
    /\ RecDone =>
          \A a, b \in {REC_CAPACITY_TIERS[i].capacity_gbps : i \in DOMAIN REC_CAPACITY_TIERS} :
             a > b =>
                LET ra == simulate_link_performance(traffic, a)
                    rb == simulate_link_performance(traffic, b)
                IN  /\ ra.loss_slots <= rb.loss_slots
                    /\ FracLeq(ra.loss_ratio, rb.loss_ratio)

\* the three tiers lose on a different number of slots of the same series
C3_Witness ==
    /\ LinkDone
    /\ tier_results[50].loss_slots >= 1
    /\ tier_results[25].loss_slots > tier_results[50].loss_slots
    /\ tier_results[10].loss_slots > tier_results[25].loss_slots

\* every slot of the series has zero demand
AllZero == \A i \in DOMAIN traffic : traffic[i] = 0

\* C4: on a series of zero-demand slots only, simulate_link reports for
\* every tier traffic_slots = 0, loss_slots = 0, loss_percent 0 and
\* sla_pass true, and evaluate_link recommends the cheapest tier.
C4_AllZeroSeries ==
    (call = "evaluate_link" /\ AllZero) =>
        /\ sim.traffic_slots = 0 /\ sim.loss_slots = 0
        /\ \A t \in DOMAIN tier_results :
              /\ tier_results[t].traffic_slots = 0
              /\ tier_results[t].loss_slots = 0
              /\ tier_results[t].loss_percent = 0
              /\ tier_results[t].sla_pass
        /\ pc = "done" =>
              /\ DOMAIN result.tier_evaluation = TierSet
              /\ result.recommended_tier_gbps = CAPACITY_TIERS[1]
              /\ \A t \in TierSet :
                    TIER_COSTS[result.recommended_tier_gbps] <= TIER_COSTS[t]

\* evaluate_link returned on a series of several zero-demand slots
C4_Witness == LinkDone /\ AllZero /\ Len(traffic) >= 2

\* the capacity of the tier being simulated, in bits per slot and in Gbps
LinkTierBits == gbps_to_bits_per_slot(CAPACITY_TIERS[tier])

RecTierGbps == REC_CAPACITY_TIERS[tier].capacity_gbps

\* the slots processed so far by the running simulation
Processed == 1..(slot - 1)

\* C5: while every slot processed so far has a demand of at most the tier's
\* per-slot capacity, the simulation has recorded no loss slot and the
\* buffer is empty after every slot; and a slot records a loss event only if
\* its own demand exceeds the per-slot capacity.  Both simulators.
C5_NoLossWithinCapacity ==
    /\ [] /\ (call = "evaluate_link" /\ pc = "simulate"
                /\ \A i \in Processed : traffic[i] <= LinkTierBits)
             => (sim.loss_slots = 0 /\ sim.buffer_fill = 0)
          /\ call = "evaluate_link" =>
                \A t \in DOMAIN tier_results :
                   (\A i \in DOMAIN traffic : traffic[i] <= gbps_to_bits_per_slot(t))
                   => tier_results[t].loss_slots = 0
          /\ (call = "recommend_capacity_tier" /\ pc = "evaluate"
                /\ \A i \in Processed : traffic[i] <= RecTierGbps)
             => (perf.loss_slots = 0 /\ perf.buffer_occupancy = 0)
    /\ [][ /\ sim'.loss_slots > sim.loss_slots => traffic[slot] > LinkTierBits
           /\ perf'.loss_slots > perf.loss_slots => traffic[slot] > RecTierGbps ]_vars

\* a series within the capacity of 25G but not of 10G: no loss slot on 25G,
\* some on 10G
C5_Witness ==
    /\ LinkDone
    /\ Len(traffic) >= 3
    /\ \A i \in DOMAIN traffic :
          traffic[i] > 0 /\ traffic[i] <= gbps_to_bits_per_slot(25)
    /\ tier_results[25].loss_slots = 0
    /\ tier_results[10].loss_slots > 0

\* the series is not empty and every slot demands d
ConstantSeries(d) == traffic # <<>> /\ \A i \in DOMAIN traffic : traffic[i] = d

\* C6: on a constant series whose demand is twice the tier's per-slot
\* capacity every slot overflows: loss_slots = traffic_slots = the number of
\* slots, and the tier fails the SLA.  Both simulators.
C6_DoubleCapacitySaturates ==
    /\ call = "evaluate_link" =>
          \A k \in DOMAIN CAPACITY_TIERS :
             ConstantSeries(2 * gbps_to_bits_per_slot(CAPACITY_TIERS[k])) =>
                /\ (pc = "simulate" /\ tier = k) =>
                      /\ sim.loss_slots = slot - 1
                      /\ sim.traffic_slots = slot - 1
                /\ CAPACITY_TIERS[k] \in DOMAIN tier_results =>
                      LET r == tier_results[CAPACITY_TIERS[k]]
                      IN  /\ r.loss_slots = Len(traffic)
                          /\ r.traffic_slots = Len(traffic)
                          /\ ~ r.sla_pass
    /\ call = "recommend_capacity_tier" =>
          \A k \in DOMAIN REC_CAPACITY_TIERS :
             ConstantSeries(2 * REC_CAPACITY_TIERS[k].capacity_gbps) =>
                /\ (pc = "evaluate" /\ tier = k
                      /\ ~ BelowPeak(REC_CAPACITY_TIERS[k], peak)) =>
                      perf.loss_slots = slot - 1
                /\ REC_CAPACITY_TIERS[k].tier_name \in DOMAIN tier_evaluations =>
                      LET e == tier_evaluations[REC_CAPACITY_TIERS[k].tier_name]
                      IN  /\ e.estimated_packet_loss = 10000
                          /\ ~ e.sla_pass

\* evaluate_link returned on several slots at twice the capacity of 25G
C6_Witness ==
    /\ LinkDone
    /\ ConstantSeries(2 * gbps_to_bits_per_slot(25))
    /\ Len(traffic) >= 3
    /\ tier_results[25].loss_slots = Len(traffic)
    /\ tier_results[50].loss_slots = 0

\* C7: a tier whose capacity is below the peak traffic is an immediate
\* fail, whatever the series and the external risk: sla_pass false, loss
\* 1.0, risk 1.0, headroom 0; a link whose peak exceeds every capacity fails
\* every tier and gets the highest-cost tier by fallback.
C7_BelowPeakFailsImmediately ==
    call = "recommend_capacity_tier" =>
        /\ \A n \in DOMAIN tier_evaluations :
              RecTier(n).capacity_gbps < peak =>
                 /\ ~ tier_evaluations[n].sla_pass
                 /\ tier_evaluations[n].estimated_packet_loss = 10000
                 /\ tier_evaluations[n].congestion_risk = 10000
                 /\ tier_evaluations[n].headroom_percent = 0
        /\ (pc = "done" /\ \A n \in RecTierNames : RecTier(n).capacity_gbps < peak) =>
              /\ \A n \in RecTierNames : ~ result.tier_evaluations[n].sla_pass
              /\ result.recommended_tier = "50G"
              /\ \A n \in RecTierNames :
                    RecTier(n).relative_cost <= RecTier(result.recommended_tier).relative_cost
              /\ result.reason = "No tier fully meets SLA"

\* a link with a series and a high external risk whose peak exceeds every
\* capacity
C7_Witness ==
    /\ RecDone
    /\ peak > 50
    /\ traffic # <<>> /\ \A i \in DOMAIN traffic : traffic[i] = 0
    /\ ml = <<9>>
    /\ result.recommended_tier = "50G"

\* the tiers whose capacity equals the peak traffic
ZeroHeadroom == {n \in RecTierNames : RecTier(n).capacity_gbps = peak}

\* every evaluated tier of zero headroom is rejected
ZeroHeadroomRejected ==
    \A n \in ZeroHeadroom \cap DOMAIN tier_evaluations : ~ tier_evaluations[n].sla_pass

\* C8 as stated: a tier whose capacity equals the peak is rejected and the
\* recommender moves to a more expensive tier.
C8_AsStated ==
    call = "recommend_capacity_tier" =>
        /\ ZeroHeadroomRejected
        /\ pc = "done" =>
              \A n \in ZeroHeadroom :
                 RecTier(result.recommended_tier).relative_cost > RecTier(n).relative_cost

\* C8 (amended): a tier whose capacity equals the peak is rejected even with
\* zero loss, and the recommended tier is a more expensive one when the
\* catalog has one; when the rejected tier is the most expensive (50G), no
\* tier passes and the fallback returns that same tier.
C8_ZeroHeadroomRejected ==
    call = "recommend_capacity_tier" =>
        /\ ZeroHeadroomRejected
        /\ pc = "done" =>
              \A n \in ZeroHeadroom :
                 IF \E m \in RecTierNames : RecTier(m).relative_cost > RecTier(n).relative_cost
                 THEN RecTier(result.recommended_tier).relative_cost > RecTier(n).relative_cost
                 ELSE /\ result.recommended_tier = n
                      /\ \A m \in RecTierNames : ~ result.tier_evaluations[m].sla_pass
                      /\ result.reason = "No tier fully meets SLA"

\* 10G is rejected at zero simulated loss for a peak of 10 and 25G is taken
C8_Witness ==
    /\ RecDone
    /\ peak = 10
    /\ traffic # <<>>
    /\ result.tier_evaluations["10G"].estimated_packet_loss = 0
    /\ ~ result.tier_evaluations["10G"].sla_pass
    /\ result.tier_evaluations["10G"].reason = "insufficient headroom"
    /\ result.recommended_tier = "25G"

\* every ml_congestion_risk argument: None and 0.0, 0.1, .., 1.0
AllMlRisks == {<<>>} \cup {<<k>> : k \in 0..10}

\* C9: a call that differs only in ml_congestion_risk gives the same
\* estimated_packet_loss and sla_pass for every tier, the same recommended
\* tier and the same cost savings; only congestion_risk and the echoed risk
\* may differ.
C9_RiskScoreNonInterference ==
    RecDone =>
        \A m \in AllMlRisks :
           LET other == recommend_capacity_tier("link", peak, traffic, m)
           IN  /\ other.recommended_tier = result.recommended_tier
               /\ other.recommended_capacity_gbps = result.recommended_capacity_gbps
               /\ other.cost_savings_percent = result.cost_savings_percent
               /\ other.reason = result.reason
               /\ \A n \in RecTierNames :
                     LET a == other.tier_evaluations[n]
                         b == result.tier_evaluations[n]
                     IN  /\ a.sla_pass = b.sla_pass
                         /\ a.estimated_packet_loss = b.estimated_packet_loss
                         /\ a.headroom_percent = b.headroom_percent
                         /\ a.reason = b.reason

\* a high external risk raised the congestion_risk of a passing tier
C9_Witness ==
    /\ RecDone
    /\ ml = <<9>>
    /\ \E n \in RecTierNames :
          /\ result.tier_evaluations[n].sla_pass
          /\ result.tier_evaluations[n].congestion_risk
                > evaluate_capacity_tier(RecTier(n), peak, traffic, <<>>).congestion_risk

\* the links of the topology that have a non-empty traffic series
LinksWithTraffic ==
    {l \in {topology[i].value : i \in DOMAIN topology} :
        Get(link_traffic, l, <<>>) # <<>>}

\* C10: the per-link list of optimize_all_links is in ascending order of
\* link identifier whatever the order of the input maps, and holds exactly
\* one entry for each link of the topology with a non-empty series.
C10_LinksSortedAndExact ==
    BatchDone =>
        LET ids == [i \in DOMAIN result.links |-> result.links[i].link_id]
        IN  /\ \A i, j \in DOMAIN ids : i < j => StrLess(ids[i], ids[j])
            /\ {ids[i] : i \in DOMAIN ids} = LinksWithTraffic
            /\ result.summary.total_links = Cardinality(LinksWithTraffic)

\* two links reported, given by the topology in descending order
C10_Witness ==
    /\ BatchDone
    /\ Len(topology) = 2
    /\ StrLess(topology[2].value, topology[1].value)
    /\ Len(result.links) = 2


RECURSIVE BaselineCostSum(_)
\* the summed cost of the peak-based tiers of the links of a report
BaselineCostSum(links) ==
    IF links = <<>> THEN 0
    ELSE TIER_COSTS[Head(links).peak_based_tier] + BaselineCostSum(Tail(links))

RECURSIVE RecommendedCostSum(_)
\* the summed cost of the recommended tiers of the links of a report
RecommendedCostSum(links) ==
    IF links = <<>> THEN 0
    ELSE TIER_COSTS[Head(links).recommended_tier_gbps] + RecommendedCostSum(Tail(links))

\* C11: the overall savings reported by optimize_all_links is (summed
\* baseline cost - summed recommended cost) / summed baseline cost * 100,
\* rounded to a whole percent, over exactly the links of the report: a
\* cost-weighted figure, not the mean of the links' percentages; it is 0
\* when no link was evaluated.
C11_OverallSavingsCostWeighted ==
    BatchDone =>
        LET baseline    == BaselineCostSum(result.links)
            recommended == RecommendedCostSum(result.links)
            overall     == result.summary.overall_cost_savings_percent
        IN  /\ result.summary.total_links = Len(result.links)
            /\ result.links = <<>> => overall = 0
            /\ result.links # <<>> =>
                  overall = RoundHalfEven((baseline - recommended) * 100, baseline)

\* a report of two links with savings of 60 and 0 percent, whose mean is 30,
\* has overall savings of 20 percent
C11_Witness ==
    /\ BatchDone
    /\ Len(result.links) = 2
    /\ {result.links[i].cost_savings_percent : i \in 1..2} = {600, 0}
    /\ SavingsSum(result.links) = 2 * 300
    /\ result.summary.overall_cost_savings_percent = 20

\* the smallest tier of evaluate_link's catalog whose capacity covers a peak
\* given in bits per slot, the highest tier when none does
SmallestCoveringTier(peak_bits) ==
    LET covering == {t \in TierSet : gbps_to_bits_per_slot(t) >= peak_bits}
    IN  IF covering = {} THEN CHOOSE t \in TierSet : \A u \in TierSet : u <= t
        ELSE CHOOSE t \in covering : \A u \in covering : t <= u

\* the same for recommend_capacity_tier's catalog and a peak in Gbps
SmallestCoveringRecTier(peak_traffic_gbps) ==
    LET covering == {i \in DOMAIN REC_CAPACITY_TIERS :
                        REC_CAPACITY_TIERS[i].capacity_gbps >= peak_traffic_gbps}
    IN  IF covering = {} THEN REC_CAPACITY_TIERS[Len(REC_CAPACITY_TIERS)]
        ELSE REC_CAPACITY_TIERS[CHOOSE i \in covering : \A j \in covering : i <= j]

\* C12: in evaluate_link and in recommend_capacity_tier alike, the baseline
\* of the savings is the smallest tier whose capacity is at least the peak
\* traffic (the highest tier when none is), and the savings reported is
\* max(0, (baseline cost - recommended cost) / baseline cost * 100)
\* (held in tenths of a percent).
C12_BaselineIsSmallestCoveringTier ==
    /\ LinkDone =>
          LET baseline == SmallestCoveringTier(result.peak_bits)
              b == TIER_COSTS[baseline]
              r == TIER_COSTS[result.recommended_tier_gbps]
          IN  /\ result.peak_based_tier = baseline
              /\ result.cost_savings_percent =
                     RoundHalfEven(Max(0, (b - r) * 100), b) * 10
    /\ RecDone =>
          LET b == SmallestCoveringRecTier(peak).relative_cost
              r == RecTier(result.recommended_tier).relative_cost
          IN  result.cost_savings_percent = RoundHalfEven(Max(0, (b - r) * 1000), b)

\* the savings of a link of evaluate_link without the max(0, .)
RawSavings(link) ==
    LET b == TIER_COSTS[link.peak_based_tier]
        r == TIER_COSTS[link.recommended_tier_gbps]
    IN  RoundHalfEven((b - r) * 100, b) * 10

ScenarioOutcome ==
    /\ LinkDone =>
          /\ result.tier_evaluation[10].traffic_slots = Len(ScenarioGbps)
          /\ result.tier_evaluation[10].loss_slots = 0
          /\ result.tier_evaluation[10].sla_pass
          /\ result.recommended_tier_gbps = 10
    /\ RecDone =>
          /\ result.tier_evaluations["10G"].estimated_packet_loss = 0
          /\ result.tier_evaluations["10G"].sla_pass
          /\ result.recommended_tier = "10G"

DirectDone == call \in DirectCalls /\ pc = "done"

\* C15: a call of a simulator or of the tier evaluator with a zero or
\* negative capacity is rejected with an error: it never returns an
\* evaluation.
C15_NonPositiveCapacityRejected ==
    (DirectDone /\ capacity <= 0) => "raised" \in DOMAIN result

\* the number of slots of a series that carry traffic
TrafficCarrying(series) == Cardinality({i \in DOMAIN series : series[i] > 0})

\* the statement of C16 for simulate_link
SimulateLinkRatio ==
    (call = "simulate_link" /\ pc = "done" /\ capacity > 0) =>
        LET padded == simulate_link(Append(traffic, 0), capacity)
        IN  /\ result.traffic_slots = TrafficCarrying(traffic)
            /\ result.loss_percent =
                   IF TrafficCarrying(traffic) > 0
                   THEN RoundHalfEven(result.loss_slots * 10000, TrafficCarrying(traffic))
                   ELSE 0
            /\ padded.loss_percent >= result.loss_percent
            /\ padded.sla_pass => result.sla_pass

\* the statement of C16 for simulate_link_performance
SimulateLinkPerformanceRatio ==
    (call = "simulate_link_performance" /\ pc = "done" /\ capacity > 0) =>
        LET padded == simulate_link_performance(Append(traffic, 0), capacity)
        IN  /\ result.loss_ratio =
                   IF TrafficCarrying(traffic) > 0
                   THEN Reduce(<<result.loss_slots, TrafficCarrying(traffic)>>)
                   ELSE Zero
            /\ FracLeq(result.loss_ratio, padded.loss_ratio)
            /\ FracLeq(padded.loss_ratio, SLA_PACKET_LOSS_THRESHOLD)
                  => FracLeq(result.loss_ratio, SLA_PACKET_LOSS_THRESHOLD)

\* C16: in both simulators the loss ratio reported is the number of loss
\* slots over the number of slots that carry traffic, so a zero-demand slot
\* added to a series never lowers the ratio and never turns a failing
\* verdict into a passing one.
C16_LossRatioOverTrafficSlots ==
    /\ SimulateLinkRatio
    /\ SimulateLinkPerformanceRatio

\* C17: the congestion_risk of every tier evaluation lies in [0, 1] (the
\* field is held in units of 1e-4), also when the risk is the average
\* utilization of a simulated series that the supplied peak does not bound.
C17_CongestionRiskWithinUnit ==
    call = "recommend_capacity_tier" =>
        \A n \in DOMAIN tier_evaluations :
            /\ 0 <= tier_evaluations[n].congestion_risk
            /\ tier_evaluations[n].congestion_risk <= 10000

GenerateDone == call = "generate_capacity_recommendations" /\ pc = "done"

\* the links of the topology for which link_traffic has no slot
LinksWithoutTraffic ==
    {topology[i].value : i \in DOMAIN topology} \ LinksWithTraffic

\* the positions of link_data whose dict has neither a series nor a peak
WithoutData ==
    {i \in DOMAIN link_data : /\ link_data[i].peakTraffic = <<>>
                              /\ link_data[i].traffic_per_slot_gbps = <<>>}

\* C18: in optimize_all_links and in generate_capacity_recommendations a
\* link with neither a series nor peak statistics is skipped and recorded as
\* excluded: the batch returns, it holds no recommendation for that link,
\* and it names the link among the excluded ones.
C18_MissingDataSkippedAndRecorded ==
    /\ BatchDone =>
          /\ \A i \in DOMAIN result.links :
                result.links[i].link_id \notin LinksWithoutTraffic
          /\ LinksWithoutTraffic # {} =>
                /\ "excluded" \in DOMAIN result
                /\ result.excluded = LinksWithoutTraffic
    /\ GenerateDone =>
          /\ Len(result.recommendations) = Len(link_data) - Cardinality(WithoutData)
          /\ WithoutData # {} =>
                /\ "excluded" \in DOMAIN result
                /\ result.excluded = {link_data[i].link_id : i \in WithoutData}

\* the loss that evaluate_capacity_tier compares with the threshold for a
\* tier not below the peak: simulated with a series, estimated without
LossOf(n) ==
    IF traffic # <<>>
    THEN simulate_link_performance(traffic, RecTier(n).capacity_gbps).loss_ratio
    ELSE AnalyticEstimate(RecTier(n), peak)[1]

\* C19: the reason of every tier evaluation names the constraint that
\* decided it: a tier below the peak names the capacity shortfall; a passing
\* evaluation states loss and headroom; a failing one whose loss is within
\* the threshold names the headroom; a failing one whose loss exceeds the
\* threshold names the loss.
C19_ReasonNamesGoverningConstraint ==
    RecDone =>
        \A n \in DOMAIN result.tier_evaluations :
            LET e == result.tier_evaluations[n]
                within == FracLeq(LossOf(n), SLA_PACKET_LOSS_THRESHOLD)
            IN  IF e.capacity_gbps < peak
                THEN e.reason = "below peak" /\ ~ e.sla_pass
                ELSE /\ e.sla_pass => e.reason = "meets SLA"
                     /\ (~ e.sla_pass /\ within) =>
                           /\ e.reason = "insufficient headroom"
                           /\ e.headroom_percent = 0
                     /\ (~ e.sla_pass /\ ~ within) => e.reason = "packet loss"

\* a recommendation whose three evaluations are a capacity shortfall, a
\* headroom failure without loss, and a pass
C19_Witness ==
    /\ RecDone
    /\ result.tier_evaluations["10G"].reason = "below peak"
    /\ result.tier_evaluations["25G"].reason = "insufficient headroom"
    /\ result.tier_evaluations["25G"].estimated_packet_loss = 0
    /\ result.tier_evaluations["50G"].reason = "meets SLA"

\* the report of optimize_all_links called on one link of the batch alone:
\* that link's cells and that link's series
ReportAlone(link_id) ==
    LET OfLink(item) == item.value = link_id
    IN  optimize_all_links(SelectSeq(topology, OfLink),
                           <<[key |-> link_id, value |-> Get(link_traffic, link_id, <<>>)]>>)

C21_BufferWithinCapacity ==
    /\ [] /\ (call = "evaluate_link" /\ pc = "simulate") =>
                /\ 0 <= sim.buffer_fill
                /\ sim.buffer_fill * SYMBOLS_PER_SLOT <= LinkTierBits * BUFFER_SYMBOLS
          /\ (call = "recommend_capacity_tier" /\ pc = "evaluate") =>
                /\ 0 <= perf.buffer_occupancy
                /\ perf.buffer_occupancy * SYMBOLS_PER_SLOT
                      <= PerfBits(RecTierGbps) * BUFFER_SYMBOLS
    /\ [][ /\ sim'.loss_slots > sim.loss_slots =>
                sim'.buffer_fill * SYMBOLS_PER_SLOT = LinkTierBits * BUFFER_SYMBOLS
           /\ perf'.loss_slots > perf.loss_slots =>
                perf'.buffer_occupancy * SYMBOLS_PER_SLOT
                   = PerfBits(RecTierGbps) * BUFFER_SYMBOLS ]_vars

\* simulate_link has had a loss slot, which left the buffer full, and then a
\* slot without demand, which emptied it
C21_Witness ==
    /\ call = "evaluate_link" /\ pc = "simulate"
    /\ slot = 3
    /\ traffic[1] > LinkTierBits /\ traffic[2] = 0
    /\ sim.loss_slots = 1
    /\ sim.buffer_fill = 0

\* the state of simulate_link after the slots that simulate_link_performance
\* has processed, run on the same series expressed in bits per slot
SimOfProcessed ==
    SimRun(SimStart, [i \in Processed |-> gbps_to_bits_per_slot(traffic[i])],
           RecTierGbps)

\* C22: on the same series, in bits per slot for simulate_link and in Gbps
\* per slot for simulate_link_performance, and the same tier capacity, the
\* two simulators have the same buffer occupancy after every slot and the
\* same count of loss slots.
C22_SimulatorsAgree ==
    (call = "recommend_capacity_tier" /\ pc = "evaluate" /\ slot > 1) =>
        /\ perf.buffer_occupancy = SimOfProcessed.buffer_fill
        /\ perf.loss_slots = SimOfProcessed.loss_slots

\* simulate_link_performance has processed a loss slot, a slot without
\* demand and a slot within the capacity
C22_Witness ==
    /\ call = "recommend_capacity_tier" /\ pc = "evaluate"
    /\ slot = 4
    /\ traffic[1] > RecTierGbps /\ traffic[2] = 0
    /\ traffic[3] > 0 /\ traffic[3] <= RecTierGbps
    /\ perf.loss_slots = 1

\* C23: without a series, every tier whose capacity is at least the peak
\* gets an estimated_packet_loss of exactly 0, the effective utilization
\* peak / capacity - 0.15 never exceeding 0.85; so without a series sla_pass
\* is true exactly when the capacity is above the peak.
C23_AnalyticLossIsZero ==
    (call = "recommend_capacity_tier" /\ traffic = <<>>) =>
        \A n \in DOMAIN tier_evaluations :
            LET e == tier_evaluations[n]
            IN  /\ e.capacity_gbps >= peak =>
                      /\ e.estimated_packet_loss = 0
                      /\ AnalyticEstimate(RecTier(n), peak)[1] = Zero
                      /\ \A p \in 0..e.capacity_gbps :
                            AnalyticEstimate(RecTier(n), p)[1] = Zero
                /\ e.sla_pass <=> e.capacity_gbps > peak

\* a recommendation without a series, for a peak equal to the capacity of
\* 25G: no loss estimated for 25G, which fails, and 50G passes
C23_Witness ==
    /\ RecDone
    /\ traffic = <<>>
    /\ peak = 25
    /\ result.tier_evaluations["25G"].estimated_packet_loss = 0
    /\ ~ result.tier_evaluations["25G"].sla_pass
    /\ result.tier_evaluations["50G"].sla_pass
    /\ result.recommended_tier = "50G"

\* C24: for every result of simulate_link, sla_pass is true exactly when the
\* loss_percent reported, rounded to 2 decimals (held in hundredths of a
\* percent), is at most SLA_MAX_LOSS_PERCENT, and the loss_percent reported
\* is 0 only if loss_slots is 0.
C24_ReportedLossAgreesWithVerdict ==
    call = "evaluate_link" =>
        \A t \in DOMAIN tier_results :
            /\ tier_results[t].sla_pass
                  <=> tier_results[t].loss_percent <= SLA_MAX_LOSS_PERCENT * 100
            /\ tier_results[t].loss_percent = 0 => tier_results[t].loss_slots = 0

\* C25: after any prefix of the series simulate_link has
\* 0 <= loss_slots <= traffic_slots <= number of slots processed, with
\* traffic_slots the number of processed slots with demand above 0; a slot
\* without demand changes neither counter.
C25_CountersOfSimulateLink ==
    /\ [] /\ (call = "evaluate_link" /\ pc = "simulate") =>
                /\ 0 <= sim.loss_slots
                /\ sim.loss_slots <= sim.traffic_slots
                /\ sim.traffic_slots <= slot - 1
                /\ sim.traffic_slots = Cardinality({i \in Processed : traffic[i] > 0})
          /\ call = "evaluate_link" =>
                \A t \in DOMAIN tier_results :
                   /\ 0 <= tier_results[t].loss_slots
                   /\ tier_results[t].loss_slots <= tier_results[t].traffic_slots
                   /\ tier_results[t].traffic_slots <= tier_results[t].total_slots
                   /\ tier_results[t].total_slots = Len(traffic)
                   /\ tier_results[t].traffic_slots = TrafficCarrying(traffic)
    /\ [][ (call = "evaluate_link" /\ pc = "simulate" /\ slot' = slot + 1
              /\ traffic[slot] = 0) =>
                /\ sim'.loss_slots = sim.loss_slots
                /\ sim'.traffic_slots = sim.traffic_slots ]_vars

\* simulate_link has processed a traffic slot, a slot without demand and a
\* loss slot: two traffic slots out of three
C25_Witness ==
    /\ call = "evaluate_link" /\ pc = "simulate"
    /\ slot = 4
    /\ traffic[1] > 0 /\ traffic[2] = 0 /\ traffic[3] > LinkTierBits
    /\ sim.traffic_slots = 2
    /\ sim.loss_slots >= 1
=============================================================================
